---------------------------- MODULE Spec2Model ----------------------------
(***************************************************************************)
(* DCSServerBot: the UDP control plane between the bot and its DCS         *)
(* servers.                                                                *)
(*                                                                         *)
(* The standalone bot (src/core/bot.py): the receive handler of the        *)
(* threading UDP server, register_server / rename_server, sendtoDCSSync    *)
(* and its pending map, the start-up probe register_servers.               *)
(*                                                                         *)
(*   Spec          any server name and address may announce itself; one    *)
(*                 datagram in flight, one listener registered.            *)
(*   SpecDispatch  one server; one datagram in flight, NumListeners        *)
(*                 listeners registered.                                   *)
(*   SpecRace      one server; MaxThreads datagrams in flight.             *)
(*                                                                         *)
(*   SpecRename    rename_server and setEmbed called on their own.         *)
(*   SpecStorage   the same with a database that may fail.                 *)
(*   SpecListeners one server, with and without a registered listener.     *)
(*   SpecBind      the UDP socket may fail to bind.                        *)
(*   SpecShutdown  close() while datagrams are in progress.                *)
(*   SpecEnvelope  the encoding of sendtoDCS.                              *)
(*                                                                         *)
(* The agent of a multi-node installation (src/services/listener.py): its  *)
(* receive handler, register_server, register_servers, the rows it writes  *)
(* to the intercom table and the poll task that reads them.                *)
(*                                                                         *)
(*   SpecAgent     any server name and address may announce itself.        *)
(*   SpecIntercom  the poll task intercom() and the rows of the master.    *)
(*   SpecPoll      the poll task with a working database, under fairness.  *)
(*   SpecMalformed either program, with datagrams that lack a field.       *)
(*                                                                         *)
(* Two scheduling domains are modelled.  Worker threads (one per datagram) *)
(* run RequestHandler.handle; the asyncio loop thread runs the listener    *)
(* coroutines, the callbacks posted with call_soon_threadsafe, the timers  *)
(* of asyncio.wait_for and the coroutine register_servers.  A step of the  *)
(* model is one stretch of code between two accesses to shared state.      *)
(***************************************************************************)
EXTENDS Integers, Sequences, FiniteSets, TLC

\* ------------------------------------------------------------------ bounds
MaxTokens == 1          \* sync tokens (uuid4) minted in one behaviour
NumListeners == 2       \* len(self.eventListeners) in SpecDispatch
MaxThreads == 2         \* datagrams handled concurrently in SpecRace
MaxIntercom == 2        \* rows of table intercom written in one behaviour
MaxPosted == 2          \* callbacks waiting for the loop of the agent
MaxRows == 2            \* rows the master writes to table intercom for this node
MaxRepeat == 2          \* times the side effect of one row is followed
MantissaBits == 3       \* bits of an integer the Lua runtime of DCS keeps (53, scaled)

Names == {"Alpha", "Bravo"}            \* server names
Addrs == {"h:10308", "h:10309"}        \* (host, port) pairs announced
Tokens == 1..MaxTokens

\* data['channel']: 0 is a non-sync channel ("-1" or a numeric channel id),
\* t in Tokens is "sync-<uuid t>", Ghost is a sync- channel no request minted.
Ghost == MaxTokens + 1
IsSync(ch) == ch # 0

\* self.version, compared with data['hook_version']
Version == "v2"
HookVersions == {"v2", "v1"}

NoChan == "none"

\* A field the datagram (or the dict) does not have; NoChannel is the value of
\* data['channel'] when the key is missing, distinct from every channel.
Absent == "absent"
NoChannel == Ghost + Cardinality(Names) + 1

VARIABLES
    peers,          \* the DCS server processes that send datagrams: <<name, (host, port)>>
    installs,       \* names utils.findDCSInstallations() resolves (ini + serverSettings)
    eventListeners, \* self.eventListeners, as the positions 1..n of the list
    globals,        \* self.globals: server_name -> server dict
    db,             \* table servers of this node: server_name -> (host, port)
    fut,            \* the asyncio futures created by sendtoDCSSync, by token
    listeners,      \* self.listeners: the tokens that are keys of the pending map
    thr,            \* the worker threads running RequestHandler.handle
    calls,          \* callbacks posted to the loop with call_soon_threadsafe (FIFO)
    errs,           \* exceptions that escaped in some thread (worker or loop)
    rs,             \* the coroutine register_servers
    udp,            \* the UDP server: "off", "on", "failed", "closing", "closed"
    servers,        \* agent: self.servers, the server objects in insertion order
    intercom,       \* agent: the rows of table intercom addressed to Master
    agent,          \* agent: how far EventListenerService.start() has come
    embeds,         \* self.embeds: server_name -> the messages posted for it
    inbox,          \* agent: the committed rows of table intercom for this node
    scan,           \* agent: the poll task intercom() and its open transaction
    effects,        \* agent: how often the side effect of a row was performed
    dbfail,         \* the connections of self.pool may raise psycopg2.DatabaseError
    dcs             \* the last envelope sendtoDCS sent, and what the hook decoded

env == <<peers, installs, eventListeners, dbfail, dcs>>
poll == <<inbox, scan, effects>>
avars == <<servers, intercom, agent, inbox, scan, effects>>
bot == <<globals, fut, listeners, thr, rs, udp, embeds>>
vars == <<peers, installs, eventListeners, globals, db, fut, listeners, thr,
          calls, errs, rs, udp, servers, intercom, agent, embeds, inbox, scan,
          effects, dbfail, dcs>>

\* ------------------------------------------------------- partial functions
Put(f, k, v) == [x \in DOMAIN f \cup {k} |-> IF x = k THEN v ELSE f[x]]
Drop(f, k) == [x \in DOMAIN f \ {k} |-> f[x]]
Empty == [x \in {} |-> x]

\* ------------------------------------------------------------- the futures
NewFuture == [st |-> "unused", val |-> 0]
Minted == {t \in Tokens : fut[t].st # "unused"}
\* The loop thread is inside sendtoDCSSync (between the send and the insertion
\* into self.listeners) or inside the blocking calls of close(): nothing else
\* runs on the loop until it returns.
LoopFree ==
    /\ \A t \in Tokens : fut[t].st # "created"
    /\ udp \notin {"closing", "closed"}

\* ------------------------------------------------------ the worker threads
\* pc: where the thread is in handle(); chan, name: data['channel'] and
\* data['server_name']; how, old: the path register_server took and the name it
\* found recorded for the announced address; lres: the state of each listener's
\* coroutine; first: the listener whose result arrived first; res: results[0].
Idle == [pc |-> "idle", chan |-> 0, name |-> "", how |-> "", old |-> "",
         lres |-> [l \in eventListeners |-> "off"], first |-> 0, res |-> 0]
Threads == DOMAIN thr

\* ------------------------------------------------------ register_servers
\* seen: the keys the for loop has visited; size: len(self.globals) when the
\* iteration began; cur, tok: the server probed and the probe's token; live:
\* the dict bound to the loop variable server is still the one in the registry.
RsInit(g) == [pc |-> "iter", seen |-> {}, size |-> Cardinality(DOMAIN g),
              cur |-> "", tok |-> 0, live |-> FALSE]

\* --------------------------------------------------------------- datagrams
\* A registration announcement carries hook_version, host/port and pause (read
\* only on a sync- channel); any other event is identified by its server and
\* its channel only.
Channels == {0, Ghost} \cup Minted
Announcements ==
    {[name |-> p[1], cmd |-> "registerDCSServer", chan |-> c, hook |-> v,
      addr |-> p[2], pause |-> b] :
        p \in peers, c \in Channels, v \in HookVersions, b \in BOOLEAN}
RegisterData == {d \in Announcements : d.pause => IsSync(d.chan)}
EventData ==
    {[name |-> p[1], cmd |-> "event", chan |-> c, hook |-> Version,
      addr |-> p[2], pause |-> FALSE] : p \in peers, c \in Channels}
Datagrams == RegisterData \cup EventData

\* Datagrams that are valid JSON objects but lack server_name, command or
\* channel; chs are the channels a well-formed one may carry.
Malformed(chs) ==
    {d \in [name : {p[1] : p \in peers} \cup {Absent},
            cmd : {"registerDCSServer", "event", Absent},
            chan : chs \cup {NoChannel},
            hook : {Version},
            addr : {p[2] : p \in peers},
            pause : {FALSE}] :
        d.name = Absent \/ d.cmd = Absent \/ d.chan = NoChannel}

\* The poll task between two scans: no rows fetched, nothing deleted.
ScanIdle == [pc |-> "idle", rows |-> <<>>, deleted |-> {}]

\* ------------------------------------------------------------ init_servers
\* One server dict per row of the servers table, status UNKNOWN; the channel
\* ids are attached only when exactly one installation is found.
ChanOf(name) == name
InitServers(table, inst) ==
    [n \in DOMAIN table |->
        [status |-> "UNKNOWN", addr |-> table[n],
         chan |-> IF n \in inst THEN ChanOf(n) ELSE NoChan]]

\* The servers table a previous run of the bot leaves behind.
AlphaRow == [n \in {"Alpha"} |-> "h:10308"]
InitTables ==
    {Empty, AlphaRow,
     [n \in {"Alpha", "Bravo"} |-> IF n = "Alpha" THEN "h:10308" ELSE "h:10309"]}

\* __init__ and run(): the state when on_ready starts register_servers.
Started(nthreads, nlisteners) ==
    /\ eventListeners = 1..nlisteners
    /\ globals = InitServers(db, installs)
    /\ fut = [t \in Tokens |-> NewFuture]
    /\ listeners = {}
    /\ thr = [h \in 1..nthreads |-> Idle]
    /\ calls = <<>>
    /\ errs = {}
    /\ rs = RsInit(globals)
    /\ udp = "off"
    /\ servers = <<>>
    /\ intercom = <<>>
    /\ embeds = Empty
    /\ inbox = [next |-> 1, rows |-> Empty]
    /\ scan = ScanIdle
    /\ effects = [i \in 1..MaxRows |-> 0]
    /\ dcs = <<>>

Init ==
    /\ peers = Names \X Addrs
    /\ installs \in (SUBSET Names) \ {{}}
    /\ db \in InitTables
    /\ Started(1, 1)
    /\ agent = "off"
    /\ dbfail = FALSE

InitDispatch ==
    /\ peers = {<<"Alpha", "h:10308">>}
    /\ installs = {"Alpha"}
    /\ db \in {Empty, AlphaRow}
    /\ Started(1, NumListeners)
    /\ agent = "off"
    /\ dbfail = FALSE

InitRace ==
    /\ peers = {<<"Alpha", "h:10308">>}
    /\ installs = {"Alpha"}
    /\ db \in {Empty, AlphaRow}
    /\ Started(MaxThreads, 1)
    /\ agent = "off"
    /\ dbfail = FALSE

\* ----------------------------------------------------------- rename_server
\* Lines 153-156: the in-memory move.  raised: self.globals[old_name] is absent.
RenameGlobals(g, old, new) ==
    IF old \notin DOMAIN g
    THEN [g |-> g, raised |-> TRUE]
    ELSE LET g1 == IF new \notin DOMAIN g THEN Put(g, new, g[old]) ELSE g
         IN  [g |-> Drop(g1, old), raised |-> FALSE]

\* Lines 157-159: the messages posted for old now belong to new.
RenameEmbeds(e, old, new) ==
    IF old \in DOMAIN e THEN Drop(Put(e, new, e[old]), old) ELSE e

\* Lines 164-176: UPDATE servers SET server_name = new WHERE server_name = old.
\* server_name is the table's key: the update fails when a row for new exists,
\* and the transaction is rolled back.
RenameTable(table, old, new) ==
    IF old \notin DOMAIN table \/ old = new THEN table
    ELSE IF new \in DOMAIN table THEN table
    ELSE Put(Drop(table, old), new, table[old])

\* --------------------------------------------------------- register_server
\* Line 293-296.
AnnouncedStatus(d) ==
    IF IsSync(d.chan) THEN (IF d.pause THEN "PAUSED" ELSE "RUNNING") ELSE "LOADING"

\* Line 284 storing data.copy() instead of the merge: the channel ids of
\* lines 288-290 are attached only to a new server.
AnnouncedReplacing(g, d) ==
    [status |-> AnnouncedStatus(d), addr |-> d.addr,
     chan |-> IF d.name \in DOMAIN g THEN NoChan ELSE ChanOf(d.name)]

\* Lines 283-296: the dict stored under the announced name.
Announced(g, d) ==
    IF d.name \in DOMAIN g
    THEN [g[d.name] EXCEPT !.addr = d.addr, !.status = AnnouncedStatus(d)]
    ELSE [status |-> AnnouncedStatus(d), addr |-> d.addr, chan |-> ChanOf(d.name)]

\* Lines 283-292 alone: the dict stored under the announced name before
\* line 293 reads data['channel']; a new one has no status yet.
Unfinished(g, d) ==
    IF d.name \in DOMAIN g
    THEN [g[d.name] EXCEPT !.addr = d.addr]
    ELSE [status |-> Absent, addr |-> d.addr, chan |-> ChanOf(d.name)]

\* Line 302: the rows of this node with the announced host and port.
SameAddress(table, d) == {n \in DOMAIN table : table[n] = d.addr}

\* Lines 268-281: the announcement is refused before anything is touched.
Refused(d) == d.name \notin installs \/ d.hook # Version

\* register_server(data) on registry g and table t.  ok: the return value;
\* touched: the names whose dict object was replaced or removed; how: the path
\* taken; old: the name recorded for the announced address; moved:
\* rename_server got past its del self.globals[old].
RegisterServer(d, g, table) ==
    IF Refused(d)
    THEN [ok |-> FALSE, g |-> g, db |-> table, touched |-> {},
          how |-> "refused", old |-> "", moved |-> FALSE]
    ELSE IF d.chan = NoChannel
    THEN \* KeyError at line 293, outside the try block of line 300
         [ok |-> FALSE, g |-> Put(g, d.name, Unfinished(g, d)), db |-> table,
          touched |-> {d.name}, how |-> "nochannel", old |-> "",
          moved |-> FALSE]
    ELSE
      LET g1 == Put(g, d.name, Announced(g, d))
          rows == SameAddress(table, d)
          other == CHOOSE n \in rows : TRUE
      IN  IF Cardinality(rows) = 1 /\ other # d.name
          THEN IF other \notin installs
               THEN \* auto-rename, lines 309-311
                    LET mv == RenameGlobals(g1, other, d.name)
                    IN  IF mv.raised
                        THEN \* KeyError caught at line 329: rollback, return True
                             [ok |-> TRUE, g |-> g1, db |-> table,
                              touched |-> {d.name},
                              how |-> "renamed", old |-> other, moved |-> FALSE]
                        ELSE [ok |-> TRUE, g |-> mv.g,
                              db |-> Put(RenameTable(table, other, d.name),
                                         d.name, d.addr),
                              touched |-> {d.name, other},
                              how |-> "renamed", old |-> other, moved |-> TRUE]
               ELSE \* UDP port conflict, lines 313-316
                    [ok |-> FALSE, g |-> Drop(g1, d.name), db |-> table,
                     touched |-> {d.name}, how |-> "conflict", old |-> other,
                     moved |-> FALSE]
          ELSE [ok |-> TRUE, g |-> g1, db |-> Put(table, d.name, d.addr),
                touched |-> {d.name}, how |-> "registered", old |-> "",
                moved |-> FALSE]

\* register_server with the database failing: the first statement of the try
\* block (line 302) raises, line 329 catches it, the transaction is rolled
\* back and line 334 returns True.
RegisterOutcomes(d, g, table) ==
    {RegisterServer(d, g, table)} \cup
    (IF dbfail /\ ~Refused(d) /\ d.chan # NoChannel
     THEN {[ok |-> TRUE, g |-> Put(g, d.name, Announced(g, d)), db |-> table,
            touched |-> {d.name}, how |-> "dberror", old |-> "",
            moved |-> FALSE]}
     ELSE {})

\* ------------------------------------------- RequestHandler.handle (bot.py)
\* Lines 357-364: the non-empty results, in the order of self.eventListeners.
Results(lres) == {l \in eventListeners : lres[l] = "val"}

\* results[-1] instead of results[0].
LastResult(lres) ==
    IF Results(lres) = {} THEN 0
    ELSE CHOOSE l \in Results(lres) : \A k \in Results(lres) : l >= k

\* Line 368: results[0] if len(results) > 0 else None.
FirstResult(lres) ==
    IF Results(lres) = {} THEN 0
    ELSE CHOOSE l \in Results(lres) : \A k \in Results(lres) : l <= k

\* Lines 351-352 without the test of the status.
UnregisteredAbsentOnly(d, g) == d.name \notin DOMAIN g

\* Lines 351-352.
Unregistered(d, g) == d.name \notin DOMAIN g \/ g[d.name].status = "UNKNOWN"

\* Line 352 for an event of a server whose dict has no status (its
\* registration ended at line 293).
NoStatus(d, g) ==
    d.cmd = "event" /\ d.name \in DOMAIN g /\ g[d.name].status = Absent

\* The probe of register_servers holds the dict it read from the registry.
StillLive(touched) ==
    IF rs.pc = "probe" /\ rs.cur \in touched THEN [rs EXCEPT !.live = FALSE] ELSE rs

\* Lines 342 without the test: no datagram counts as nameless.
NamelessNever(d) == FALSE

\* Line 342: 'server_name' not in data.
Nameless(d) == d.name = Absent

\* The thread after lines 340-354: "discard" (line 344), "error" (a KeyError
\* ends handle()), "reject" (register_server returned False), "drop" (the
\* guard of line 351) or "call" (the listeners are next).
Entered(d, pc, how, old) ==
    [Idle EXCEPT !.pc = pc, !.chan = d.chan, !.name = d.name, !.how = how,
                 !.old = old]

\* Lines 339-354: a worker thread takes datagram d through register_server or
\* the guard for unregistered servers.
Handle(h, d) ==
    /\ udp = "on"
    /\ thr[h].pc = "idle"
    /\ \A k \in Threads : k < h => thr[k].pc # "idle"
    /\ IF Nameless(d)
       THEN /\ thr' = [thr EXCEPT ![h] = Entered(d, "discard", "", "")]
            /\ UNCHANGED <<globals, db, rs, embeds, errs>>
       ELSE IF d.cmd = Absent \/ NoStatus(d, globals)
       THEN \* KeyError at line 347 or at line 352
            /\ thr' = [thr EXCEPT ![h] = Entered(d, "error", "", "")]
            /\ errs' = errs \cup {"KeyError"}
            /\ UNCHANGED <<globals, db, rs, embeds>>
       ELSE IF d.cmd = "registerDCSServer"
       THEN \E r \in RegisterOutcomes(d, globals, db) :
                /\ globals' = r.g
                /\ db' = r.db
                /\ rs' = StillLive(r.touched)
                /\ embeds' = IF r.moved THEN RenameEmbeds(embeds, r.old, d.name)
                              ELSE embeds
                /\ errs' = IF r.how = "nochannel" THEN errs \cup {"KeyError"}
                            ELSE errs
                /\ thr' = [thr EXCEPT ![h] =
                              Entered(d, IF r.how = "nochannel" THEN "error"
                                         ELSE IF r.ok THEN "call" ELSE "reject",
                                      r.how, r.old)]
       ELSE /\ thr' = [thr EXCEPT ![h] =
                          IF Unregistered(d, globals)
                          THEN Entered(d, "drop", "", "")
                          ELSE Entered(d, "call", "event", "")]
            /\ UNCHANGED <<globals, db, rs, embeds, errs>>
    /\ UNCHANGED <<env, avars, fut, listeners, calls, udp>>

\* Lines 344, 350 and 354: handle() returns without reaching a listener, or
\* an exception has ended it (socketserver logs it and the thread ends).
Return(h) ==
    /\ thr[h].pc \in {"discard", "error", "reject", "drop"}
    /\ thr' = [thr EXCEPT ![h] = Idle]
    /\ UNCHANGED <<env, avars, embeds, globals, db, fut, listeners, calls, errs, rs, udp>>

\* Lines 355-356: one coroutine per listener is handed to the loop.
Dispatched(t) == [Idle EXCEPT !.pc = "wait", !.chan = t.chan,
                              !.lres = [l \in eventListeners |-> "run"]]
Dispatch(h) ==
    /\ thr[h].pc = "call"
    /\ thr' = [thr EXCEPT ![h] = Dispatched(thr[h])]
    /\ UNCHANGED <<env, avars, embeds, globals, db, fut, listeners, calls, errs, rs, udp>>

\* listener.processEvent(data) runs to completion on the loop: it returns
\* nothing, returns a result, or raises.
ListenerOutcomes == {"none", "val", "exc"}
ListenerRun(h, l) ==
    /\ LoopFree
    /\ thr[h].pc = "wait"
    /\ thr[h].lres[l] = "run"
    /\ \E o \in ListenerOutcomes :
         thr' = [thr EXCEPT ![h].lres[l] = o,
                            ![h].first = IF o = "val" /\ @ = 0 THEN l ELSE @]
    /\ UNCHANGED <<env, avars, embeds, globals, db, fut, listeners, calls, errs, rs, udp>>

\* Lines 358-364 with the exception of a listener escaping handle().
CollectedRaising(t) ==
    IF \E l \in eventListeners : t.lres[l] = "exc" THEN Idle
    ELSE IF IsSync(t.chan) /\ t.chan \in listeners
    THEN [t EXCEPT !.pc = "sched", !.res = FirstResult(t.lres)]
    ELSE Idle

\* Lines 357-366: the results are collected and the pending map is looked up.
Collected(t) ==
    IF IsSync(t.chan) /\ t.chan \in listeners
    THEN [t EXCEPT !.pc = "sched", !.res = FirstResult(t.lres)]
    ELSE Idle

\* Lines 358-360 returning as soon as one future has a result.
CompletedAny(t) == \E l \in eventListeners : t.lres[l] # "run"

\* Lines 358-360: future.result() has returned or raised for every listener.
Completed(t) == \A l \in eventListeners : t.lres[l] # "run"

\* Lines 357-366: every future.result() has returned or raised; line 365
\* reads data['channel'] (KeyError when the datagram has none).
Collect(h) ==
    /\ thr[h].pc = "wait"
    /\ Completed(thr[h])
    /\ thr' = [thr EXCEPT ![h] = Collected(thr[h])]
    /\ errs' = IF thr[h].chan = NoChannel THEN errs \cup {"KeyError"} ELSE errs
    /\ UNCHANGED <<env, avars, embeds, globals, db, fut, listeners, calls, rs, udp>>

\* Lines 367-368: f.cancelled() is read and set_result is posted to the loop.
Sched(h) ==
    /\ thr[h].pc = "sched"
    /\ calls' = IF fut[thr[h].chan].st # "cancelled"
                THEN Append(calls, [tok |-> thr[h].chan, val |-> thr[h].res])
                ELSE calls
    /\ thr' = [thr EXCEPT ![h].pc = "del"]
    /\ UNCHANGED <<env, avars, embeds, globals, db, fut, listeners, errs, rs, udp>>

\* Line 369: del self.listeners[data['channel']].
Del(h) ==
    /\ thr[h].pc = "del"
    /\ IF thr[h].chan \in listeners
       THEN listeners' = listeners \ {thr[h].chan} /\ errs' = errs
       ELSE listeners' = listeners /\ errs' = errs \cup {"KeyError"}
    /\ thr' = [thr EXCEPT ![h] = Idle]
    /\ UNCHANGED <<env, avars, embeds, globals, db, fut, calls, rs, udp>>

\* ------------------------------------------------------------ the loop
\* The loop runs f.set_result(value): InvalidStateError unless f is pending.
RunCallback ==
    /\ agent = "off"
    /\ LoopFree
    /\ calls # <<>>
    /\ LET c == Head(calls)
       IN  IF fut[c.tok].st = "pending"
           THEN fut' = [fut EXCEPT ![c.tok] = [st |-> "done", val |-> c.val]]
                /\ errs' = errs
           ELSE fut' = fut /\ errs' = errs \cup {"InvalidStateError"}
    /\ calls' = Tail(calls)
    /\ UNCHANGED <<env, avars, embeds, globals, db, listeners, thr, rs, udp>>

\* sendtoDCSSync, lines 198-201: the future is created and the request sent.
\* A command sends a request to a server it found RUNNING, PAUSED or STOPPED
\* (plugins/csar/commands.py, lines 46-53).
Commandable == {"RUNNING", "PAUSED", "STOPPED"}
NextToken == CHOOSE t \in Tokens : fut[t].st = "unused" /\
                 \A u \in Tokens : fut[u].st = "unused" => t <= u
SendSync(s) ==
    /\ LoopFree
    /\ udp = "on"
    /\ s \in DOMAIN globals
    /\ globals[s].status \in Commandable
    /\ \E t \in Tokens : fut[t].st = "unused"
    /\ fut' = [fut EXCEPT ![NextToken].st = "created"]
    /\ UNCHANGED <<env, avars, embeds, globals, db, listeners, thr, calls, errs, rs, udp>>

\* sendtoDCSSync, lines 202-203: the future enters self.listeners and
\* wait_for starts.
Enlist(t) ==
    /\ fut[t].st = "created"
    /\ fut' = [fut EXCEPT ![t].st = "pending"]
    /\ listeners' = listeners \cup {t}
    /\ UNCHANGED <<env, avars, embeds, globals, db, thr, calls, errs, rs, udp>>

\* asyncio.wait_for: the timeout elapses, the future is cancelled and the
\* caller gets asyncio.TimeoutError.
Timeout(t) ==
    /\ LoopFree
    /\ udp # "off"
    /\ fut[t].st = "pending"
    /\ ~(rs.pc = "probe" /\ rs.tok = t)
    /\ fut' = [fut EXCEPT ![t].st = "cancelled"]
    /\ UNCHANGED <<env, avars, embeds, globals, db, listeners, thr, calls, errs, rs, udp>>

\* ------------------------------------------------------ register_servers
\* Lines 82-85: the for loop over self.globals.items() takes its next item
\* and sendtoDCSSync creates and sends the probe.
RsNext ==
    /\ agent = "off"
    /\ LoopFree
    /\ rs.pc = "iter"
    /\ IF Cardinality(DOMAIN globals) # rs.size
       THEN \* RuntimeError: dictionary changed size during iteration;
            \* on_ready ends with it
            /\ rs' = [rs EXCEPT !.pc = "crashed"]
            /\ fut' = fut
       ELSE IF DOMAIN globals \ rs.seen = {}
       THEN rs' = [rs EXCEPT !.pc = "done"] /\ fut' = fut
       ELSE /\ \E t \in Tokens : fut[t].st = "unused"
            /\ \E n \in DOMAIN globals \ rs.seen :
                 rs' = [rs EXCEPT !.pc = "probe", !.cur = n, !.tok = NextToken,
                                  !.live = TRUE, !.seen = @ \cup {n}]
            /\ fut' = [fut EXCEPT ![NextToken].st = "created"]
    /\ UNCHANGED <<env, avars, embeds, globals, db, listeners, thr, calls, errs, udp>>

\* Line 86: the probe was answered.
RsResume ==
    /\ LoopFree
    /\ rs.pc = "probe"
    /\ fut[rs.tok].st = "done"
    /\ rs' = [rs EXCEPT !.pc = "iter", !.cur = "", !.tok = 0, !.live = FALSE]
    /\ UNCHANGED <<env, avars, embeds, globals, db, fut, listeners, thr, calls, errs, udp>>

\* Lines 87-88: the probe timed out; server['status'] = Status.SHUTDOWN is
\* written to the dict the loop variable holds.
ProbeTimeout ==
    /\ LoopFree
    /\ udp # "off"
    /\ rs.pc = "probe"
    /\ fut[rs.tok].st = "pending"
    /\ fut' = [fut EXCEPT ![rs.tok].st = "cancelled"]
    /\ globals' = IF rs.live /\ rs.cur \in DOMAIN globals
                  THEN [globals EXCEPT ![rs.cur].status = "SHUTDOWN"]
                  ELSE globals
    /\ rs' = [rs EXCEPT !.pc = "iter", !.cur = "", !.tok = 0, !.live = FALSE]
    /\ UNCHANGED <<env, avars, embeds, db, listeners, thr, calls, errs, udp>>

\* start_udp_listener, lines 378-381: the task on_ready created runs as soon
\* as register_servers first suspends (or has returned).
StartUdp ==
    /\ agent = "off"
    /\ LoopFree
    /\ udp = "off"
    /\ rs.pc # "iter"
    /\ udp' = "on"
    /\ UNCHANGED <<env, avars, embeds, globals, db, fut, listeners, thr, calls, errs, rs>>

Next ==
    \/ \E h \in Threads, d \in Datagrams : Handle(h, d)
    \/ \E h \in Threads : Return(h)
    \/ \E h \in Threads : Dispatch(h)
    \/ \E h \in Threads, l \in eventListeners : ListenerRun(h, l)
    \/ \E h \in Threads : Collect(h)
    \/ \E h \in Threads : Sched(h)
    \/ \E h \in Threads : Del(h)
    \/ RunCallback
    \/ \E s \in Names : SendSync(s)
    \/ \E t \in Tokens : Enlist(t)
    \/ \E t \in Tokens : Timeout(t)
    \/ RsNext
    \/ RsResume
    \/ ProbeTimeout
    \/ StartUdp

Spec == Init /\ [][Next]_vars
SpecDispatch == InitDispatch /\ [][Next]_vars
SpecRace == InitRace /\ [][Next]_vars

\* --------------------------------------------- with and without listeners
\* self.eventListeners is empty as __init__ leaves it (line 26) until a plugin
\* calls register_eventListener.
InitListeners ==
    /\ peers = {<<"Alpha", "h:10308">>}
    /\ installs = {"Alpha"}
    /\ db \in {Empty, AlphaRow}
    /\ \E n \in 0..1 : Started(1, n)
    /\ agent = "off"
    /\ dbfail = FALSE

SpecListeners == InitListeners /\ [][Next]_vars

\* ------------------------------------------------------- the bind fails
\* start_udp_listener, line 380, with the port in use: the constructor of the
\* server raises OSError, which ends the task on_ready created at line 124;
\* nobody awaits that task, and on_ready goes on with register_servers.
StartUdpFailing ==
    /\ agent = "off"
    /\ LoopFree
    /\ udp = "off"
    /\ rs.pc # "iter"
    /\ udp' = "failed"
    /\ UNCHANGED <<env, avars, embeds, globals, db, fut, listeners, thr, calls, errs, rs>>

NextBind == Next \/ StartUdpFailing

SpecBind == InitDispatch /\ [][NextBind]_vars

\* ------------------------------------------------------------------ close
\* close(), lines 46-47, run by the loop: udp_server.shutdown() is called
\* directly and returns once serve_forever (in the executor) has left its
\* loop, which starts a thread per datagram and does not wait for it.  No
\* datagram is received afterwards.
Close ==
    /\ LoopFree
    /\ udp = "on"
    /\ udp' = "closing"
    /\ UNCHANGED <<env, avars, embeds, globals, db, fut, listeners, thr, calls, errs, rs>>

\* close(), lines 48-52: server_close() joins the threads of the datagrams
\* in progress (socketserver.ThreadingMixIn, block_on_close) and closes the
\* socket; the executor, whose only job serve_forever has ended, shuts down.
Closed ==
    /\ udp = "closing"
    /\ \A h \in Threads : thr[h].pc = "idle"
    /\ udp' = "closed"
    /\ UNCHANGED <<env, avars, embeds, globals, db, fut, listeners, thr, calls, errs, rs>>

NextShutdown == Next \/ Close \/ Closed

SpecShutdown == InitDispatch /\ [][NextShutdown]_vars

\* ----------------------------------------- rename_server called on its own
\* setEmbed, lines 221-245: a message is posted for a registered server and
\* remembered in self.embeds (the value names the server it was posted for).
SetEmbed(n) ==
    /\ LoopFree
    /\ n \in DOMAIN globals
    /\ n \notin DOMAIN embeds
    /\ embeds' = Put(embeds, n, n)
    /\ UNCHANGED <<env, avars, globals, db, fut, listeners, thr, calls, errs, rs, udp>>

\* rename_server(old, new), lines 152-178, called from a command on the loop.
\* The KeyError of line 154 or line 156 leaves before anything is changed; a
\* database error at lines 167-171 is logged and rolled back (lines 172-174).
RenameServer(old, new) ==
    /\ LoopFree
    /\ old # new
    /\ \E mv \in {RenameGlobals(globals, old, new)} :
         IF mv.raised
         THEN /\ errs' = errs \cup {"KeyError"}
              /\ UNCHANGED <<globals, embeds, db, rs>>
         ELSE /\ globals' = mv.g
              /\ embeds' = RenameEmbeds(embeds, old, new)
              /\ db' \in {RenameTable(db, old, new)} \cup
                         (IF dbfail THEN {db} ELSE {})
              /\ rs' = StillLive({old, new})
              /\ errs' = errs
    /\ UNCHANGED <<env, avars, fut, listeners, thr, calls, udp>>

\* Servers register and are renamed; no request is pending.
NextRename ==
    \/ \E h \in Threads, d \in Datagrams : Handle(h, d)
    \/ \E h \in Threads : Return(h)
    \/ \E h \in Threads : Dispatch(h)
    \/ \E h \in Threads, l \in eventListeners : ListenerRun(h, l)
    \/ \E h \in Threads : Collect(h)
    \/ RsNext
    \/ StartUdp
    \/ \E n \in Names : SetEmbed(n)
    \/ \E old, new \in Names : RenameServer(old, new)

\* The table is empty at start-up, so register_servers has nothing to probe.
InitRename ==
    /\ peers = Names \X Addrs
    /\ installs \in (SUBSET Names) \ {{}}
    /\ db = Empty
    /\ Started(1, 1)
    /\ agent = "off"
    /\ dbfail = FALSE

SpecRename == InitRename /\ [][NextRename]_vars

\* The same with a database that may fail.
InitStorage ==
    /\ peers = Names \X {"h:10308"}
    /\ installs = Names
    /\ db \in {Empty, AlphaRow}
    /\ Started(1, 1)
    /\ agent = "off"
    /\ dbfail = TRUE

SpecStorage == InitStorage /\ [][NextRename]_vars

\* =================================================== the agent (listener.py)
\* A server object: key is its key in self.servers ("" once it was deleted
\* from the dict; register_servers may still hold it), name its name, tok the
\* token of the request register_servers sent for it (0: none), f the state of
\* that request's future.  The request's token is a key of server.listeners
\* as long as f is "pending".
DcsPort == 10308        \* server.settings.get('port', 10308)
WebguiPort == 8088      \* autoexec.webgui_port or 8088
WebrtcPort == 10309     \* autoexec.webrtc_port or 10309

\* What serverSettings.lua and autoexec.cfg of the second installation share
\* with those of the first.
Clashes == {"none", "dcs", "webgui", "webrtc", "webrtc+voice"}
Settings(i, clash) ==
    [port |-> IF i = 1 \/ clash = "dcs" THEN DcsPort ELSE DcsPort + 1,
     webgui |-> IF i = 1 \/ clash = "webgui" THEN WebguiPort ELSE WebguiPort + 1,
     webrtc |-> IF i = 1 \/ clash \in {"webrtc", "webrtc+voice"}
                THEN WebrtcPort ELSE WebrtcPort + 1,
     voice |-> clash = "webrtc+voice"]

\* findDCSInstallations() lists the installations in a fixed order.
RECURSIVE Listed(_)
Listed(S) ==
    IF S = {} THEN <<>>
    ELSE LET n == CHOOSE x \in S : \A y \in S : x = "Alpha" \/ y # "Alpha"
         IN  <<n>> \o Listed(S \ {n})

NewServer(n, i, clash) ==
    [key |-> n, name |-> n, status |-> "UNKNOWN", tok |-> 0, f |-> "none",
     set |-> Settings(i, clash)]

ProbeToken(i) == Ghost + i
AgentChannels == {0, Ghost} \cup {ProbeToken(i) : i \in 1..Cardinality(Names)}
AgentDatagrams ==
    {[name |-> p[1], cmd |-> c, chan |-> ch, hook |-> v, addr |-> p[2],
      pause |-> FALSE] :
        p \in peers, c \in {"registerDCSServer", "event"}, ch \in AgentChannels,
        v \in HookVersions}

\* self.servers.values(): the positions of the objects still in the dict.
InDict(S) == {i \in 1..Len(S) : S[i].key # ""}
Lookup(S, n) == {i \in InDict(S) : S[i].key = n}
Last(I) == CHOOSE i \in I : \A j \in I : j <= i

\* Lines 137-162: the loop over self.servers.values(); "dcs" and "webgui"
\* clashes return False, a webrtc clash is only logged.
PortClash(S) ==
    \E i, j \in InDict(S) :
        /\ i < j
        /\ \/ S[i].set.port = S[j].set.port
           \/ S[i].set.webgui = S[j].set.webgui

\* server.rename(new) (core/server.py, not part of this source tree): the
\* object takes the new name.
Rename(obj, new) == [obj EXCEPT !.name = new]

\* Line 176 and line 180: del self.servers[n].
Delete(S, n) == [i \in 1..Len(S) |-> IF S[i].key = n THEN [S[i] EXCEPT !.key = ""]
                                     ELSE S[i]]

\* register_server(data) of the agent, called with a name that is a key of
\* self.servers (handle() returns at lines 243-245 otherwise, so the branch of
\* lines 120-125 is never taken).  After the loop of line 137 the variable
\* server is the last object of the dict, and it is that one line 174 renames.
AgentRegisterServer(d, S, table) ==
    IF Refused(d) \/ Lookup(S, d.name) = {}
    THEN [ok |-> FALSE, servers |-> S, how |-> "refused"]
    ELSE
      LET me == CHOOSE i \in Lookup(S, d.name) : TRUE
          S1 == [S EXCEPT ![me].status = "STOPPED"]
          last == Last(InDict(S1))
          rows == SameAddress(table, d)
          other == CHOOSE n \in rows : TRUE
      IN  IF PortClash(S1)
          THEN [ok |-> FALSE, servers |-> S1, how |-> "ports"]
          ELSE IF Cardinality(rows) = 1 /\ other # d.name
          THEN IF other \notin installs
               THEN [ok |-> TRUE,
                     servers |-> Delete([S1 EXCEPT ![last] = Rename(@, d.name)],
                                        other),
                     how |-> "renamed"]
               ELSE [ok |-> FALSE, servers |-> Delete(S1, d.name),
                     how |-> "conflict"]
          ELSE [ok |-> TRUE, servers |-> S1, how |-> "registered"]

\* Line 189: INSERT INTO intercom (agent, data) VALUES ('Master', data).
SendtoMaster(q, d) == Append(q, [agent |-> "Master", name |-> d.name, cmd |-> d.cmd])

\* Lines 247-253: the channel is a key of server.listeners and the future is
\* not done, so set_result is posted to the loop; a datagram other than a
\* registration ends there.
Answers(obj, d) == IsSync(d.chan) /\ obj.tok = d.chan /\ obj.f = "pending"

\* start(), line 38: init_servers creates one object per installation.
AgentInitServers ==
    /\ agent = "listening"
    /\ \E clash \in Clashes :
         servers' = [i \in 1..Cardinality(installs) |->
                        NewServer(Listed(installs)[i], i, clash)]
    /\ agent' = "initialized"
    /\ UNCHANGED <<env, bot, poll, db, calls, errs, intercom>>

\* register_servers, lines 80-85: one sendtoDCSSync per server object, all
\* awaited together.
AgentRegisterServers ==
    /\ agent = "initialized"
    /\ servers' = [i \in 1..Len(servers) |->
                     [servers[i] EXCEPT !.tok = ProbeToken(i), !.f = "pending"]]
    /\ agent' = "probing"
    /\ UNCHANGED <<env, bot, poll, db, calls, errs, intercom>>

\* Line 237: 'server_name' not in data.
AgentNameless(d) == d.name = Absent

\* What handle(), lines 234-259, makes of datagram d: the registry, the
\* callbacks posted and the rows for the master afterwards; ok, how: what
\* register_server returned, if it was called.
AgentHandled(d) ==
    IF AgentNameless(d)
    THEN [servers |-> servers, calls |-> calls, intercom |-> intercom,
          ok |-> FALSE, how |-> "discard"]
    ELSE IF d.cmd = Absent
    THEN \* KeyError at line 241
         [servers |-> servers, calls |-> calls, intercom |-> intercom,
          ok |-> FALSE, how |-> "KeyError"]
    ELSE IF Lookup(servers, d.name) = {}
    THEN [servers |-> servers, calls |-> calls, intercom |-> intercom,
          ok |-> FALSE, how |-> "unknown"]
    ELSE LET obj == servers[CHOOSE i \in Lookup(servers, d.name) : TRUE]
             posted == IF Answers(obj, d)
                       THEN Append(calls, [tok |-> d.chan, val |-> 1])
                       ELSE calls
             reg == AgentRegisterServer(d, servers, db)
         IN  IF d.cmd = "registerDCSServer"
             THEN [servers |-> reg.servers, calls |-> posted,
                   intercom |-> SendtoMaster(intercom, d),
                   ok |-> reg.ok, how |-> reg.how]
             ELSE [servers |-> servers, calls |-> posted,
                   intercom |-> IF Answers(obj, d) THEN intercom
                                ELSE SendtoMaster(intercom, d),
                   ok |-> FALSE, how |-> "event"]

\* handle(), lines 234-259, for datagram d.
AgentHandle(d) ==
    /\ agent # "off"
    /\ Len(intercom) < MaxIntercom
    /\ Len(calls) < MaxPosted
    /\ \E r \in {AgentHandled(d)} :
         /\ servers' = r.servers
         /\ calls' = r.calls
         /\ intercom' = r.intercom
         /\ errs' = IF r.how = "KeyError" THEN errs \cup {"KeyError"} ELSE errs
    /\ UNCHANGED <<env, bot, poll, db, agent>>

\* The loop of the agent runs f.set_result(data).
AgentRunCallback ==
    /\ agent # "off"
    /\ calls # <<>>
    /\ LET c == Head(calls)
           I == {i \in 1..Len(servers) : servers[i].tok = c.tok}
       IN  IF \E i \in I : servers[i].f = "pending"
           THEN /\ servers' = [i \in 1..Len(servers) |->
                                IF i \in I THEN [servers[i] EXCEPT !.f = "done"]
                                ELSE servers[i]]
                /\ errs' = errs
           ELSE servers' = servers /\ errs' = errs \cup {"InvalidStateError"}
    /\ calls' = Tail(calls)
    /\ UNCHANGED <<env, bot, poll, db, intercom, agent>>

\* The timeout of a request of register_servers elapses.
AgentTimeout(i) ==
    /\ agent = "probing"
    /\ i \in 1..Len(servers)
    /\ servers[i].f = "pending"
    /\ servers' = [servers EXCEPT ![i].f = "cancelled"]
    /\ UNCHANGED <<env, bot, poll, db, calls, errs, intercom, agent>>

\* register_servers, lines 86-98: gather has returned; the servers whose
\* request timed out are marked SHUTDOWN.
AgentGathered ==
    /\ agent = "probing"
    /\ \A i \in 1..Len(servers) : servers[i].f # "pending"
    /\ servers' = [i \in 1..Len(servers) |->
                     IF servers[i].f = "cancelled"
                     THEN [servers[i] EXCEPT !.status = "SHUTDOWN"]
                     ELSE servers[i]]
    /\ agent' = "started"
    /\ UNCHANGED <<env, bot, poll, db, calls, errs, intercom>>

InitAgent ==
    /\ peers = Names \X Addrs
    /\ installs \in (SUBSET Names) \ {{}}
    /\ db \in InitTables
    /\ Started(1, 1)
    /\ agent = "listening"
    /\ dbfail = FALSE

NextAgent ==
    \/ AgentInitServers
    \/ AgentRegisterServers
    \/ \E d \in AgentDatagrams : AgentHandle(d)
    \/ AgentRunCallback
    \/ \E i \in 1..Cardinality(Names) : AgentTimeout(i)
    \/ AgentGathered

SpecAgent == InitAgent /\ [][NextAgent]_vars

\* ------------------------------------------------- the poll task intercom()
\* What a row asks for: a command for the DCS server, or an rpc whose object
\* is not 'Server', whose method is missing on the server object, returns a
\* value, returns nothing, or raises.
Kinds == {"cmd", "rpc-other", "rpc-missing", "rpc-val", "rpc-none", "rpc-raise"}
Rows == [name : Names, kind : Kinds]

\* The orders in which the SELECT of line 197, which has no ORDER BY, may
\* return the rows with the ids in I.
Orders(I) ==
    {o \in [1..Cardinality(I) -> I] : \A i, j \in DOMAIN o : i # j => o[i] # o[j]}

\* The master writes a row for this node.
MasterInsert(r) ==
    /\ agent # "off"
    /\ inbox.next <= MaxRows
    /\ inbox' = [next |-> inbox.next + 1, rows |-> Put(inbox.rows, inbox.next, r)]
    /\ UNCHANGED <<env, bot, db, calls, errs, servers, intercom, agent, scan, effects>>

\* Lines 193-198: a scan opens its transaction and fetches the rows.
ScanStart ==
    /\ agent \in {"probing", "started"}
    /\ scan.pc = "idle"
    /\ DOMAIN inbox.rows # {}
    /\ \E o \in Orders(DOMAIN inbox.rows) :
         scan' = [pc |-> "scanning", rows |-> o, deleted |-> {}]
    /\ UNCHANGED <<env, bot, db, calls, errs, servers, intercom, agent, inbox, effects>>

\* Line 202 without the test.
KnownAlways(r) == TRUE

\* Line 202: the row names a server of self.servers.
Known(r) == Lookup(servers, r.name) # {}

\* Line 210 without the test of rc: every return of the operation is sent.
ProcessedAlwaysReplying(r) ==
    IF ~Known(r) \/ r.kind = "rpc-other"
    THEN [effect |-> FALSE, reply |-> FALSE, out |-> "next"]
    ELSE IF r.kind = "rpc-missing"
    THEN [effect |-> FALSE, reply |-> FALSE, out |-> "AttributeError"]
    ELSE IF r.kind = "rpc-raise"
    THEN [effect |-> TRUE, reply |-> FALSE, out |-> "Exception"]
    ELSE [effect |-> TRUE, reply |-> r.kind # "cmd", out |-> "next"]

\* Lines 199-217 for the next fetched row: effect, a datagram is sent to the
\* DCS server (line 216) or the operation is invoked (lines 226-228); reply,
\* a row for the master is written (line 212); out, the scan goes on ("next")
\* or an exception leaves intercom().
Processed(r) ==
    IF ~Known(r) \/ r.kind = "rpc-other"
    THEN [effect |-> FALSE, reply |-> FALSE, out |-> "next"]
    ELSE IF r.kind = "rpc-missing"
    THEN [effect |-> FALSE, reply |-> FALSE, out |-> "AttributeError"]
    ELSE IF r.kind = "rpc-raise"
    THEN [effect |-> TRUE, reply |-> FALSE, out |-> "Exception"]
    ELSE [effect |-> TRUE, reply |-> r.kind = "rpc-val", out |-> "next"]

\* One pass of the for loop of line 197.  An exception leaves the with blocks:
\* the transaction is rolled back and, not being one of the exception types
\* the task retries on, ends the task.
ScanEntry ==
    /\ scan.pc = "scanning"
    /\ scan.rows # <<>>
    /\ LET id == Head(scan.rows)
           r == inbox.rows[id]
           p == Processed(r)
       IN  /\ p.effect => effects[id] < MaxRepeat
           /\ p.reply => Len(intercom) < MaxIntercom
           /\ effects' = IF p.effect THEN [effects EXCEPT ![id] = @ + 1] ELSE effects
           /\ intercom' = IF p.reply
                          THEN SendtoMaster(intercom, [name |-> r.name, cmd |-> "rpc"])
                          ELSE intercom
           /\ IF p.out = "next"
              THEN /\ scan' = [scan EXCEPT !.rows = Tail(@),
                                           !.deleted = @ \cup {id}]
                   /\ errs' = errs
              ELSE /\ scan' = [pc |-> "stopped", rows |-> <<>>, deleted |-> {}]
                   /\ errs' = errs \cup {p.out}
    /\ UNCHANGED <<env, bot, db, calls, servers, agent, inbox>>

\* The with blocks of lines 193-196 are left normally: the deletes are
\* committed.
ScanCommit ==
    /\ scan.pc = "scanning"
    /\ scan.rows = <<>>
    /\ inbox' = [inbox EXCEPT !.rows = [i \in DOMAIN @ \ scan.deleted |-> @[i]]]
    /\ scan' = ScanIdle
    /\ UNCHANGED <<env, bot, db, calls, errs, servers, intercom, agent, effects>>

\* A statement of the scan fails with psycopg.DatabaseError (line 32 makes
\* the task retry on it): the transaction is rolled back, the next scan
\* starts over.
ScanDbError ==
    /\ scan.pc = "scanning"
    /\ scan' = ScanIdle
    /\ UNCHANGED <<env, bot, db, calls, errs, servers, intercom, agent, inbox, effects>>

InitIntercom ==
    /\ peers = {<<"Alpha", "h:10308">>}
    /\ installs = {"Alpha"}
    /\ db = Empty
    /\ Started(1, 1)
    /\ agent = "listening"
    /\ dbfail = FALSE

NextIntercom ==
    \/ AgentInitServers
    \/ AgentRegisterServers
    \/ \E r \in Rows : MasterInsert(r)
    \/ ScanStart
    \/ ScanEntry
    \/ ScanCommit
    \/ ScanDbError

SpecIntercom == InitIntercom /\ [][NextIntercom]_vars

\* The poll task with a database that works.  start() runs init_servers and
\* register_servers to their end, tasks.loop(seconds=1) starts a scan every
\* second as long as the task lives, and the loop of the agent runs a scan
\* it has started to its end.
NextPoll ==
    \/ AgentInitServers
    \/ AgentRegisterServers
    \/ \E r \in Rows : MasterInsert(r)
    \/ ScanStart
    \/ ScanEntry
    \/ ScanCommit

FairPoll ==
    /\ WF_vars(AgentInitServers)
    /\ WF_vars(AgentRegisterServers)
    /\ WF_vars(ScanStart)
    /\ WF_vars(ScanEntry)
    /\ WF_vars(ScanCommit)

SpecPoll == InitIntercom /\ [][NextPoll]_vars /\ FairPoll

\* ---------------------------------------------------------------- sendtoDCS
\* The values of an envelope: an int, the decimal string of an int or another
\* string; deep: the value sits inside a dict or list that is the field's value.
Safe == 2 ^ MantissaBits
Number(n) == [t |-> "int", v |-> n, deep |-> FALSE]
Digits(n) == [t |-> "str", v |-> n, deep |-> FALSE]
Text == [t |-> "text", v |-> 0, deep |-> FALSE]
Nested(x) == [x EXCEPT !.deep = TRUE]
Scalars == {Number(n) : n \in 0..(2 * Safe - 1)} \cup {Text}
Values == Scalars \cup {Nested(x) : x \in Scalars}
Keys == {"id", "params"}
Envelopes == [Keys -> Values]

\* Lines 189-191: for key, value in message.items(): if type(value) == int,
\* the value is replaced by str(value).
Coerced(m) ==
    [k \in DOMAIN m |-> IF m[k].t = "int" /\ ~m[k].deep THEN Digits(m[k].v)
                        ELSE m[k]]

\* The number the hook gets for a JSON number n: Lua keeps numbers as
\* doubles, so beyond the mantissa n is rounded to the nearest double (ties to
\* the even mantissa).
LuaNumber(n) ==
    IF n < Safe \/ n % 2 = 0 THEN n
    ELSE IF ((n - 1) \div 2) % 2 = 0 THEN n - 1 ELSE n + 1

\* Line 192 and the hook's JSON decoding: strings arrive as they are, numbers
\* as Lua numbers, at every depth.
Decoded(x) == IF x.t = "int" THEN [x EXCEPT !.v = LuaNumber(@)] ELSE x

\* sendtoDCS(server, message), lines 187-195.
SendtoDCS(m) ==
    /\ dcs' = <<[sent |-> m,
                 got |-> [k \in DOMAIN m |-> Decoded(Coerced(m)[k])]]>>
    /\ UNCHANGED <<peers, installs, eventListeners, dbfail, avars, bot, db,
                   calls, errs>>

NextEnvelope == \E m \in Envelopes : SendtoDCS(m)

SpecEnvelope == InitDispatch /\ [][NextEnvelope]_vars

\* ------------------------------------------------- malformed datagrams
\* The node runs bot.py (agent = "off": on_ready, its task start_udp_listener
\* and the callbacks of its loop) or the agent, and its UDP server also
\* receives datagrams that lack a field.
NextMalformed ==
    \/ \E h \in Threads, d \in Datagrams \cup Malformed(Channels) : Handle(h, d)
    \/ \E h \in Threads : Return(h)
    \/ \E h \in Threads : Dispatch(h)
    \/ \E h \in Threads, l \in eventListeners : ListenerRun(h, l)
    \/ \E h \in Threads : Collect(h)
    \/ \E h \in Threads : Sched(h)
    \/ \E h \in Threads : Del(h)
    \/ RunCallback
    \/ \E t \in Tokens : Enlist(t)
    \/ RsNext
    \/ RsResume
    \/ ProbeTimeout
    \/ StartUdp
    \/ AgentInitServers
    \/ AgentRegisterServers
    \/ \E d \in AgentDatagrams \cup Malformed(AgentChannels) : AgentHandle(d)
    \/ AgentRunCallback
    \/ \E i \in 1..Cardinality(Names) : AgentTimeout(i)
    \/ AgentGathered

InitMalformed ==
    /\ peers = {<<"Alpha", "h:10308">>}
    /\ installs = {"Alpha"}
    /\ db \in {Empty, AlphaRow}
    /\ Started(1, 1)
    /\ agent \in {"off", "listening"}
    /\ dbfail = FALSE

SpecMalformed == InitMalformed /\ [][NextMalformed]_vars

\* ===================================================================== C1
\* C1: in the standalone receive handler, a datagram whose command is not
\* registerDCSServer and whose server_name is absent from the registry or has
\* status UNKNOWN reaches no listener, leaves the registry unchanged and
\* neither resolves nor removes a pending handle: the thread goes to the
\* "drop" position and from there only returns.
C1_UnknownDropped ==
    [][\A h \in Threads :
        /\ \A d \in Datagrams :
             (/\ Handle(h, d)
              /\ d.cmd # "registerDCSServer"
              /\ (d.name \notin DOMAIN globals
                  \/ globals[d.name].status = "UNKNOWN"))
             => /\ thr'[h].pc = "drop"
                /\ UNCHANGED <<globals, db, fut, listeners, calls, errs>>
        /\ (thr[h].pc = "drop" /\ thr'[h] # thr[h])
             => /\ thr'[h] = Idle
                /\ UNCHANGED <<globals, db, fut, listeners, calls, errs>>
      ]_vars

\* A dropped event of a server still UNKNOWN that even carried the token of a
\* pending request.
C1_Witness ==
    \E h \in Threads :
        /\ thr[h].pc = "drop"
        /\ thr[h].name \in DOMAIN globals
        /\ thr[h].chan \in listeners
        /\ fut[thr[h].chan].st = "pending"

\* ===================================================================== C2
InHandler(t) == \E h \in Threads : thr[h].pc \in {"sched", "del"} /\ thr[h].chan = t
\* C2: once a sendtoDCSSync request has completed, by fulfilment or by
\* timeout, the pending map holds no entry for its token (stated for the
\* moments when no handler is between its lookup and its del for that token).
C2_NoEntryAfterCompletion ==
    \A t \in Tokens :
        (fut[t].st \in {"done", "cancelled"} /\ ~InHandler(t)) => t \notin listeners

\* ===================================================================== C3
\* C3: a reply for a token whose handle is already resolved, timed out or
\* unknown raises no error in any thread: no KeyError in a worker thread, no
\* InvalidStateError from a set_result run by the loop.
C3_NoErrorOnLateReply == errs = {}

\* ===================================================================== C4
\* C4: whenever a sendtoDCSSync request times out, the registry status of the
\* target server is SHUTDOWN afterwards (stated for the requests of
\* register_servers, whose target is known).
C4_TimeoutMarksShutdown ==
    [][(/\ rs.pc = "probe"
        /\ fut[rs.tok].st = "pending"
        /\ fut'[rs.tok].st = "cancelled")
       => (/\ rs.cur \in DOMAIN globals'
           /\ globals'[rs.cur].status = "SHUTDOWN")]_vars

\* ===================================================================== C5
Ran == {"none", "val", "exc"}
\* C5: when a listener raises for an admitted event, every listener has still
\* been invoked and has run, a non-empty result of the others is still the
\* one collected, and a pending handle of the event's channel is still
\* resolved: the thread goes on to post set_result with that result.
C5_RaisingListenerIsolated ==
    [][\A h \in Threads :
        /\ (thr[h].pc = "call" /\ thr'[h] # thr[h])
             => \A l \in eventListeners : thr'[h].lres[l] = "run"
        /\ (/\ thr[h].pc = "wait" /\ thr'[h].pc # "wait"
            /\ \E l \in eventListeners : thr[h].lres[l] = "exc")
             => /\ \A l \in eventListeners : thr[h].lres[l] \in Ran
                /\ IF IsSync(thr[h].chan) /\ thr[h].chan \in listeners
                   THEN /\ thr'[h].pc = "sched"
                        /\ thr'[h].lres = thr[h].lres
                        /\ IF \E l \in eventListeners : thr[h].lres[l] = "val"
                           THEN thr[h].lres[thr'[h].res] = "val"
                           ELSE thr'[h].res = 0
                   ELSE thr'[h] = Idle
        /\ (/\ thr[h].pc = "sched" /\ thr'[h] # thr[h]
            /\ fut[thr[h].chan].st = "pending")
             => calls' = Append(calls, [tok |-> thr[h].chan, val |-> thr[h].res])
      ]_vars

\* One listener raised, another returned a result, and the request of the
\* event's channel was resolved with that result.
C5_Witness ==
    \E h \in Threads :
        /\ thr[h].pc = "del"
        /\ \E l \in eventListeners : thr[h].lres[l] = "exc"
        /\ thr[h].res # 0
        /\ fut[thr[h].chan] = [st |-> "done", val |-> thr[h].res]

\* ===================================================================== C6
\* C6: the handle of a synchronous-channel event is resolved at most once,
\* by a set_result posted only after every listener has completed, with one
\* of the listeners' non-empty results or with None when there is none; a
\* posted set_result that finds the handle pending resolves it; the token
\* leaves the pending map once, at the handler's del, and never returns.
C6_ResolvedOnceAfterListeners ==
    [][/\ Len(calls') > Len(calls)
          => \E h \in Threads :
               /\ thr[h].pc = "sched"
               /\ \A l \in eventListeners : thr[h].lres[l] \in Ran
               /\ \E v \in {0} \cup eventListeners :
                    /\ calls' = Append(calls, [tok |-> thr[h].chan, val |-> v])
                    /\ IF \E l \in eventListeners : thr[h].lres[l] = "val"
                       THEN v # 0 /\ thr[h].lres[v] = "val"
                       ELSE v = 0
       /\ \A t \in Tokens :
            /\ fut[t].st = "done" => fut'[t] = fut[t]
            /\ (fut[t].st # "done" /\ fut'[t].st = "done")
                 => /\ fut[t].st = "pending"
                    /\ calls # <<>>
                    /\ Head(calls) = [tok |-> t, val |-> fut'[t].val]
            /\ (/\ calls # <<>> /\ calls' = Tail(calls)
                /\ Head(calls).tok = t /\ fut[t].st = "pending")
                 => fut'[t].st = "done"
            /\ (t \in listeners /\ t \notin listeners')
                 => \E h \in Threads : thr[h].pc = "del" /\ thr[h].chan = t
            /\ (t \notin listeners /\ t \in listeners') => fut[t].st = "created"
      ]_vars

\* Two listeners returned a result, the loop has run the posted set_result
\* and the caller got one of the two; the handler is about to remove the token.
C6_Witness ==
    \E h \in Threads :
        /\ thr[h].pc = "del"
        /\ calls = <<>>
        /\ Cardinality({l \in eventListeners : thr[h].lres[l] = "val"}) >= 2
        /\ fut[thr[h].chan].st = "done"
        /\ thr[h].lres[fut[thr[h].chan].val] = "val"

\* ===================================================================== C7
Least(S) == CHOOSE l \in S : \A k \in S : l <= k
Returned(t) == {l \in eventListeners : t.lres[l] = "val"}
\* C7, as the code has it: when several listeners return a non-empty result,
\* the result handed to the waiting caller is that of the listener registered
\* first among them, whatever the order in which the handlers completed.
C7_FirstRegisteredWins ==
    [][\A h \in Threads :
        (/\ thr[h].pc = "sched" /\ thr'[h] # thr[h]
         /\ fut[thr[h].chan].st = "pending"
         /\ Returned(thr[h]) # {})
        => calls' = Append(calls, [tok |-> thr[h].chan,
                                   val |-> Least(Returned(thr[h]))])]_vars

\* C7 as claimed: the result handed over is that of the listener whose
\* handler completed first.
C7_FirstCompletedWins ==
    [][\A h \in Threads :
        (/\ thr[h].pc = "sched" /\ thr'[h] # thr[h]
         /\ fut[thr[h].chan].st = "pending"
         /\ Cardinality(Returned(thr[h])) >= 2)
        => calls' = Append(calls, [tok |-> thr[h].chan,
                                   val |-> thr[h].first])]_vars

\* The listener registered second completed first, both returned a result,
\* and the caller was handed the result of the listener registered first.
C7_Witness ==
    \E h \in Threads :
        /\ thr[h].pc = "del"
        /\ Cardinality(Returned(thr[h])) >= 2
        /\ thr[h].first # Least(Returned(thr[h]))
        /\ fut[thr[h].chan] = [st |-> "done", val |-> Least(Returned(thr[h]))]

\* ===================================================================== C8
\* C8: a registration announcement rejected for hook-version mismatch or for
\* missing configuration leaves the registry, the pending requests and the
\* servers table as they were, and no pending handle is resolved for it (on
\* the agent: no set_result is posted for it).
C8_RefusalChangesNothing ==
    [][\A d \in AgentDatagrams :
        (AgentHandle(d) /\ d.cmd = "registerDCSServer" /\ Refused(d))
        => UNCHANGED <<servers, db, calls>>]_vars

\* ===================================================================== C9
\* C9: an announcement rejected for a UDP port conflict leaves the registry
\* identical to its state before the announcement.
C9_ConflictLeavesRegistry ==
    [][\A h \in Threads :
        (thr[h].pc = "idle" /\ thr'[h].pc = "reject" /\ thr'[h].how = "conflict")
        => globals' = globals]_vars

\* ==================================================================== C10
\* C10: after an auto-rename (the announced address is recorded under another
\* name that has no installation any more) the registration is accepted, and
\* the registry and the servers table hold the new name and not the old one.
C10_AutoRenameMoves ==
    \A h \in Threads :
        (thr[h].pc = "call" /\ thr[h].how = "renamed")
        => /\ thr[h].name \in DOMAIN globals
           /\ thr[h].old \notin DOMAIN globals
           /\ thr[h].name \in DOMAIN db
           /\ thr[h].old \notin DOMAIN db

\* ==================================================================== C11
\* C11: whenever old is in the registry, after rename_server(old, new) the
\* lookup of old fails and the record under new is the one old had (channel
\* ids, status), the messages remembered for old are remembered for new, and
\* the pending requests are as before - whether or not new was there already.
C11_RenameCarriesRecord ==
    [][\A old, new \in Names :
        (RenameServer(old, new) /\ old \in DOMAIN globals)
        => /\ old \notin DOMAIN globals'
           /\ new \in DOMAIN globals'
           /\ globals'[new] = globals[old]
           /\ old \in DOMAIN embeds
                => (new \in DOMAIN embeds' /\ embeds'[new] = embeds[old])
           /\ UNCHANGED <<fut, listeners>>]_vars

\* ==================================================================== C12
\* C12: rename_server(old, new) with old absent from the registry raises no
\* error and leaves the registry, self.embeds and the servers table unchanged.
C12_RenameAbsentIsSilent ==
    [][\A old, new \in Names :
        (RenameServer(old, new) /\ old \notin DOMAIN globals)
        => UNCHANGED <<globals, embeds, db, errs>>]_vars

\* ==================================================================== C13
\* C13: an accepted re-registration of a server that is already in the
\* registry keeps the channel ids of its record, changes only the announced
\* attributes and the status, leaves the other records alone and leaves every
\* pending request pending.
C13_ReregistrationMerges ==
    [][\A h \in Threads : \A d \in Datagrams :
        (/\ Handle(h, d)
         /\ d.cmd = "registerDCSServer"
         /\ d.name \in DOMAIN globals
         /\ thr'[h].pc = "call")
        => /\ d.name \in DOMAIN globals'
           /\ globals'[d.name].chan = globals[d.name].chan
           /\ globals'[d.name].addr = d.addr
           /\ globals'[d.name].status \in {"LOADING", "RUNNING", "PAUSED"}
           /\ \A n \in DOMAIN globals' \ {d.name} :
                n \in DOMAIN globals /\ globals'[n] = globals[n]
           /\ UNCHANGED <<fut, listeners, calls>>]_vars

\* A server with a request pending has registered again and was accepted.
C13_Witness ==
    \E h \in Threads :
        /\ thr[h].pc = "call"
        /\ thr[h].how = "registered"
        /\ globals[thr[h].name].chan = ChanOf(thr[h].name)
        /\ \E t \in Tokens : fut[t].st = "pending" /\ t \in listeners

\* ==================================================================== C14
\* C14: whenever register_server accepts an announcement, the status of the
\* server afterwards is PAUSED or RUNNING for a reply on a sync- channel and
\* LOADING for a fresh process - on the agent as in the standalone bot.
C14_AcceptedStatus ==
    [][\A d \in AgentDatagrams :
        (AgentHandle(d) /\ d.cmd = "registerDCSServer" /\ AgentHandled(d).ok)
        => \E i \in Lookup(servers', d.name) :
              servers'[i].status = AnnouncedStatus(d)]_vars

\* ==================================================================== C15
\* C15: an announcement for a name that is not in the registry, with a valid
\* configuration, the right hook version and an address no other name holds,
\* leaves the agent's handler with a registry entry for that name (stated for
\* the handler once init_servers has run).
C15_NewNameIsRegistered ==
    \A d \in AgentDatagrams :
        (/\ agent \in {"initialized", "probing", "started"}
         /\ d.cmd = "registerDCSServer"
         /\ ~Refused(d)
         /\ SameAddress(db, d) \subseteq {d.name}
         /\ Lookup(servers, d.name) = {})
        => Lookup(AgentHandled(d).servers, d.name) # {}

\* ==================================================================== C16
DcsClash(S) == \E i, j \in InDict(S) : i < j /\ S[i].set.port = S[j].set.port
WebguiClash(S) == \E i, j \in InDict(S) : i < j /\ S[i].set.webgui = S[j].set.webgui
WebrtcClash(S) == \E i, j \in InDict(S) : i < j /\ S[i].set.webrtc = S[j].set.webrtc
VoiceClash(S) ==
    \E i, j \in InDict(S) :
        i < j /\ S[i].set.webrtc = S[j].set.webrtc /\ S[j].set.voice
\* C16: on the agent a clash on the DCS port makes register_server return
\* False; a clash on the webrtc port makes it return False if voice chat is
\* enabled, and otherwise lets the registration proceed.
C16_PortClashes ==
    [][\A d \in AgentDatagrams :
        (/\ AgentHandle(d)
         /\ d.cmd = "registerDCSServer"
         /\ ~Refused(d)
         /\ Lookup(servers, d.name) # {})
        => /\ DcsClash(servers) => ~AgentHandled(d).ok
           /\ VoiceClash(servers) => ~AgentHandled(d).ok
           /\ (/\ WebrtcClash(servers) /\ ~VoiceClash(servers)
               /\ ~DcsClash(servers) /\ ~WebguiClash(servers)
               /\ SameAddress(db, d) \subseteq {d.name})
                => AgentHandled(d).ok]_vars

\* ==================================================================== C17
\* C17: on the agent a registration announcement is enqueued for the master
\* only if register_server accepted it.
C17_OnlyAcceptedEnqueued ==
    [][\A d \in AgentDatagrams :
        (/\ AgentHandle(d)
         /\ d.cmd = "registerDCSServer"
         /\ intercom' # intercom)
        => AgentHandled(d).ok]_vars

\* ==================================================================== C18
\* C18: the rows for one node are processed in ascending id order: when a row
\* is processed, every row of the table with a smaller id has already been
\* processed in this scan.
C18_AscendingIds ==
    [][ScanEntry
       => \A j \in DOMAIN inbox.rows :
             j < Head(scan.rows) => j \in scan.deleted]_vars

\* ==================================================================== C19
\* C19: the side effect of a row (datagram to the DCS server, invocation of
\* the operation) is performed at most once, also when the scan's transaction
\* is rolled back after the row was processed.
C19_EffectAtMostOnce == \A i \in DOMAIN effects : effects[i] <= 1

\* ==================================================================== C20
\* C20: a row whose server_name is not in self.servers is deleted without a
\* datagram, an invocation or a reply and without an exception; the scan goes
\* on with the rows after it, the rows deleted before it stay deleted, and
\* the commit removes exactly the rows the scan deleted.
C20_UnknownServerRowRemoved ==
    [][/\ (ScanEntry /\ Lookup(servers, inbox.rows[Head(scan.rows)].name) = {})
          => /\ UNCHANGED <<effects, intercom, errs, inbox, servers, calls>>
             /\ scan'.pc = "scanning"
             /\ scan'.rows = Tail(scan.rows)
             /\ scan'.deleted = scan.deleted \cup {Head(scan.rows)}
       /\ ScanCommit
          => /\ DOMAIN inbox'.rows = DOMAIN inbox.rows \ scan.deleted
             /\ \A i \in DOMAIN inbox'.rows : inbox'.rows[i] = inbox.rows[i]
      ]_vars

\* A scan has deleted a command for a server it does not know, without any
\* effect, and goes on with a row for a server it knows.
C20_Witness ==
    /\ scan.pc = "scanning"
    /\ \E i \in scan.deleted :
         /\ Lookup(servers, inbox.rows[i].name) = {}
         /\ inbox.rows[i].kind = "cmd"
         /\ effects[i] = 0
    /\ scan.rows # <<>>
    /\ Lookup(servers, inbox.rows[Head(scan.rows)].name) # {}

\* ==================================================================== C21
\* C21: for a row of a known server, an rpc on object 'Server' invokes the
\* named operation once; a reply row is written if and only if the operation
\* returned a non-empty value, and it is addressed to the master, which wrote
\* the request; any other command is sent to the DCS server and nothing is
\* written for the master; the row is deleted only once its invocation or
\* its datagram is done, and no other row's effect is performed in that pass.
C21_RpcAndCommand ==
    [][ScanEntry =>
        LET id == Head(scan.rows)
            r == inbox.rows[id]
        IN  Lookup(servers, r.name) # {} =>
              /\ r.kind \in {"rpc-val", "rpc-none", "rpc-raise", "cmd"}
                   => effects'[id] = effects[id] + 1
              /\ r.kind \in {"rpc-other", "rpc-missing"} => effects'[id] = effects[id]
              /\ \A j \in DOMAIN effects \ {id} : effects'[j] = effects[j]
              /\ (intercom' # intercom) <=> (r.kind = "rpc-val")
              /\ r.kind = "rpc-val"
                   => intercom' = Append(intercom, [agent |-> "Master",
                                                    name |-> r.name, cmd |-> "rpc"])
              /\ (id \in scan'.deleted /\ r.kind # "rpc-other")
                   => effects'[id] >= 1
      ]_vars

\* One scan has invoked an operation that returned a value, written the reply
\* for the master, and sent a command to the DCS server; both rows are deleted.
C21_Witness ==
    /\ scan.pc = "scanning"
    /\ Len(intercom) = 1
    /\ intercom[1].agent = "Master"
    /\ \E i, j \in scan.deleted :
         /\ inbox.rows[i].kind = "rpc-val" /\ effects[i] = 1
         /\ inbox.rows[j].kind = "cmd" /\ effects[j] = 1
         /\ Lookup(servers, inbox.rows[i].name) # {}
         /\ Lookup(servers, inbox.rows[j].name) # {}

\* ==================================================================== C22
\* C22: on the agent a datagram is written to table intercom for the master
\* exactly when its server is in the registry with a status other than
\* UNKNOWN, or it is a registration announcement, and it did not answer a
\* pending request of this node; it is then written once.
C22_EnqueuedWhenRegistered ==
    [][\A d \in AgentDatagrams :
        AgentHandle(d) =>
          LET I == Lookup(servers, d.name)
              admitted == \/ d.cmd = "registerDCSServer"
                          \/ \E i \in I : servers[i].status # "UNKNOWN"
              consumed == /\ d.cmd # "registerDCSServer"
                          /\ \E i \in I : /\ IsSync(d.chan)
                                           /\ servers[i].tok = d.chan
                                           /\ servers[i].f = "pending"
          IN  IF admitted /\ ~consumed
              THEN intercom' = Append(intercom, [agent |-> "Master",
                                                 name |-> d.name, cmd |-> d.cmd])
              ELSE intercom' = intercom]_vars

\* ==================================================================== C23
\* C23: a datagram without server_name is discarded without side effects, by
\* the standalone handler and by the agent's: the registry, the pending map,
\* the table and the rows for the master are unchanged, no listener is
\* invoked, no callback is posted and no error is raised.
C23_NamelessDiscarded ==
    /\ [](\A d \in Malformed(AgentChannels) :
            d.name = Absent
            => /\ AgentHandled(d).servers = servers
               /\ AgentHandled(d).calls = calls
               /\ AgentHandled(d).intercom = intercom
               /\ AgentHandled(d).how = "discard")
    /\ [][\A h \in Threads :
           /\ \A d \in Malformed(Channels) :
                (Handle(h, d) /\ d.name = Absent)
                => /\ thr'[h].pc = "discard"
                   /\ UNCHANGED <<globals, db, fut, listeners, calls, errs,
                                   embeds, rs, intercom, servers>>
           /\ (thr[h].pc = "discard" /\ thr'[h] # thr[h])
                => /\ thr'[h] = Idle
                   /\ UNCHANGED <<globals, db, fut, listeners, calls, errs,
                                   embeds, rs, intercom, servers>>
         ]_vars

\* A nameless datagram that carried the token of the pending probe is being
\* discarded by the standalone handler.
C23_Witness ==
    \E h \in Threads :
        /\ thr[h].pc = "discard"
        /\ thr[h].name = Absent
        /\ thr[h].chan \in listeners
        /\ fut[thr[h].chan].st = "pending"

\* ==================================================================== C24
\* C24: a datagram that has a server_name but no command or no channel
\* reaches no listener and leaves the registry and the pending map as they
\* were.
C24_FieldlessDropped ==
    [][\A h \in Threads : \A d \in Malformed(Channels) :
        (Handle(h, d) /\ d.name # Absent)
        => /\ thr'[h].pc # "call"
           /\ UNCHANGED <<globals, listeners, fut>>]_vars

\* ==================================================================== C25
\* C25: when the database step of register_server or of rename_server fails,
\* the registry and self.embeds are as they were before the operation, and
\* register_server does not report the registration as accepted.
C25_StorageFailureAbandons ==
    [][/\ \A h \in Threads :
            (thr[h].pc = "idle" /\ thr'[h].how = "dberror")
            => /\ globals' = globals
               /\ embeds' = embeds
               /\ thr'[h].pc # "call"
       /\ \A old, new \in Names :
            (/\ RenameServer(old, new)
             /\ old \in DOMAIN globals
             /\ old \in DOMAIN db /\ new \notin DOMAIN db
             /\ db' = db)
            => (globals' = globals /\ embeds' = embeds)]_vars

\* ==================================================================== C26
\* C26: during shutdown the loop thread never blocks waiting for worker
\* threads that are themselves waiting for listener coroutines to run on
\* that loop, so a shutdown begun while datagrams are in progress completes.
C26_ShutdownNeverBlocks ==
    ~(/\ udp = "closing"
      /\ \E h \in Threads :
           thr[h].pc = "wait" /\ \E l \in eventListeners : thr[h].lres[l] = "run")

\* ==================================================================== C27
\* C27: when binding the UDP socket fails, start-up is aborted: on_ready
\* never gets to "DCSServerBot started, accepting commands" (register_servers
\* has returned) with a server that is not listening.
C27_BindFailureAborts == ~(udp = "failed" /\ rs.pc = "done")

\* ==================================================================== C28
\* C28: in every envelope sent with sendtoDCS a string arrives as it was
\* sent, and every integer beyond the range the receiver keeps exactly, at
\* top level or nested inside the payload, arrives as its decimal string.
C28_BigIntegersAsStrings ==
    \A i \in DOMAIN dcs : \A k \in Keys :
        LET x == dcs[i].sent[k]
            y == dcs[i].got[k]
        IN  /\ x.t = "text" => y = x
            /\ (x.t = "int" /\ x.v >= Safe)
                 => y = [t |-> "str", v |-> x.v, deep |-> x.deep]

\* ==================================================================== C29
\* C29: the receive handler never looks up, at line 365, the token of a
\* request that sendtoDCSSync has sent and not yet put into self.listeners:
\* the handle is in the pending map before a reply can be processed.
C29_HandleVisibleBeforeReply ==
    [][\A h \in Threads :
        ~(/\ thr[h].pc = "wait"
          /\ thr'[h].pc # "wait"
          /\ thr[h].chan \in Tokens
          /\ fut[thr[h].chan].st = "created")]_vars

\* ==================================================================== C30
\* C30: the status register_servers writes when a start-up probe times out
\* is seen through the registry: the record then found under the probed
\* server's name has status SHUTDOWN, also when an announcement of that
\* server was processed by a worker thread while the probe was waiting.
C30_ProbeWriteVisible ==
    [][(/\ rs.pc = "probe"
        /\ rs'.pc = "iter"
        /\ fut'[rs.tok].st = "cancelled"
        /\ rs.cur \in DOMAIN globals')
       => globals'[rs.cur].status = "SHUTDOWN"]_vars

\* ==================================================================== C31
\* C31: register_servers runs to completion and probes every server that was
\* in the registry when it started, also when worker threads add or remove
\* registry entries while it waits for a reply: its for loop is never ended
\* by an exception.
C31_RegisterServersCompletes == rs.pc # "crashed"

\* ==================================================================== C32
\* C32: every row of table intercom addressed to this node is eventually
\* processed and deleted, also when a row scanned before it is an rpc whose
\* operation is missing on the server object or raises.
C32_EveryRowEventuallyDeleted ==
    \A i \in 1..MaxRows :
        (i \in DOMAIN inbox.rows) ~> (i \notin DOMAIN inbox.rows)

\* ==================================================================== C33
\* C33: after any sequence of registration announcements the servers table
\* of the node never holds two different names with the same (host, port).
C33_OneNamePerAddress ==
    \A n, m \in DOMAIN db : n # m => db[n] # db[m]

=============================================================================
